---- MODULE Spec2Model ----
(***************************************************************************)
(* Model of webhook.py: the Alertmanager webhook receiver that re-sends     *)
(* each alert of a batch to Discord, Telegram and PagerDuty.                *)
(*                                                                          *)
(* Python strings are sequences of one-character strings, so that the       *)
(* substring test of the environment mapping and the regular expression of  *)
(* the PagerDuty service derivation are computed, not assumed.  A Python    *)
(* dict is a function; "k in d" is k \in DOMAIN d; a lookup of a missing    *)
(* key raises KeyError, which ends the request with a 500 response.         *)
(***************************************************************************)
EXTENDS Integers, Sequences, FiniteSets, TLC

VARIABLES
    config,            \* the module-level config dict (read-only after load)
    alerts,            \* payload['alerts'] of the request being served
    default_severity,  \* the <severity> segment of the POST URL
    pc,                \* which handler webhook_handler is running
    idx,               \* position of that handler's for loop in alerts
    phase,             \* "loop", which requests.post awaits its response, or "raised"
    parsed,            \* the tuple parse_alert returned for the current alert
    posts,             \* per destination: the outbound requests.post calls made
    responses,         \* per destination: the handler's responses list
    response,          \* the handler's local: response.json() of the last response
    http_status,       \* status of the webhook response (0 while running)
    error,             \* the exception handed to internal_server_error, if any
    service,           \* pagerduty_handler's local: the derived service
    faults,            \* number of non-2xx responses the upstreams have served
    text,              \* substitute_hyperlinks: the text argument
    link_format,       \* substitute_hyperlinks: the link_format argument
    returned           \* substitute_hyperlinks: the value returned

vars == <<config, alerts, default_severity, pc, idx, phase, parsed, posts,
          response, responses, http_status, error, service, faults,
          text, link_format, returned>>

-----------------------------------------------------------------------------
(* Bounds of the model *)

MaxAlerts == 2        \* alerts in one batch
MaxFaults == 2        \* non-2xx responses the upstreams serve during one request
MaxEnvLen == 2        \* length of an environment string (resolver inputs)
MaxMapping == 2       \* entries of environment_mapping (resolver inputs)
MaxHostLen == 3       \* length of a hostname (service derivation inputs)

-----------------------------------------------------------------------------
(* Strings *)

None == <<"None">>    \* Python's None, where a string is expected

critical == <<"c","r","i","t","i","c","a","l">>
warning == <<"w","a","r","n","i","n","g">>
Watchdog == <<"W","a","t","c","h","d","o","g">>
instance_down == <<"i","n","s","t","a","n","c","e","_","d","o","w","n">>
default == <<"d","e","f","a","u","l","t">>

Letters == {"a","b","c","d","e","f","g","h","i","j","k","l","m","n","o","p",
            "q","r","s","t","u","v","w","x","y","z",
            "A","B","C","D","E","F","G","H","I","J","K","L","M","N","O","P",
            "Q","R","S","T","U","V","W","X","Y","Z"}

\* All strings over alphabet of length lo..hi.
Strings(alphabet, lo, hi) == UNION { [1..n -> alphabet] : n \in lo..hi }

\* Python's "sub in s" for strings.
IsSubstring(sub, s) ==
    \E i \in 0..(Len(s) - Len(sub)) : SubSeq(s, i + 1, i + Len(sub)) = sub

firing == <<"f","i","r","i","n","g">>
resolved == <<"r","e","s","o","l","v","e","d">>

Lower == <<"a","b","c","d","e","f","g","h","i","j","k","l","m","n","o","p",
           "q","r","s","t","u","v","w","x","y","z">>
Upper == <<"A","B","C","D","E","F","G","H","I","J","K","L","M","N","O","P",
           "Q","R","S","T","U","V","W","X","Y","Z">>

UpperOf == [c \in {Lower[j] : j \in 1..26} |->
                Upper[CHOOSE j \in 1..26 : Lower[j] = c]]

\* Python's str.upper().
ToUpper(s) ==
    [i \in 1..Len(s) |-> IF s[i] \in DOMAIN UpperOf THEN UpperOf[s[i]] ELSE s[i]]

-----------------------------------------------------------------------------
(* validate_config: only the presence of keys is checked. *)

validate_config(conf) ==
    /\ ("discord" \in DOMAIN conf \/ "telegram" \in DOMAIN conf)
    /\ "discord" \in DOMAIN conf =>
          /\ "bot_token" \in DOMAIN conf.discord
          /\ "environments" \in DOMAIN conf.discord
          /\ \A env \in DOMAIN conf.discord.environments :
                \A severity \in DOMAIN conf.discord.environments[env] :
                    /\ "channel_id" \in DOMAIN conf.discord.environments[env][severity]
                    /\ "author" \in DOMAIN conf.discord.environments[env][severity]
    /\ "telegram" \in DOMAIN conf =>
          /\ "bot_token" \in DOMAIN conf.telegram
          /\ "environments" \in DOMAIN conf.telegram
          /\ \A env \in DOMAIN conf.telegram.environments :
                \A severity \in DOMAIN conf.telegram.environments[env] :
                    "chat_id" \in DOMAIN conf.telegram.environments[env][severity]
    /\ "pagerduty" \in DOMAIN conf =>
          /\ "environments" \in DOMAIN conf.pagerduty
          /\ "services" \in DOMAIN conf.pagerduty
    /\ "valid_environments" \in DOMAIN conf
    /\ "default_environment" \in DOMAIN conf
    /\ "environment_mapping" \in DOMAIN conf

-----------------------------------------------------------------------------
(* parse_alert *)

\* The loop over config['environment_mapping'] (a dict, iterated in insertion
\* order): every entry is tried, against the current value of environment.
RECURSIVE ScanMapping(_, _, _)
ScanMapping(mapping, i, environment) ==
    IF i > Len(mapping) THEN environment
    ELSE ScanMapping(mapping, i + 1,
                     IF IsSubstring(mapping[i].key, environment)
                     THEN mapping[i].value
                     ELSE environment)

\* The environment parse_alert returns for an alert's labels.
ResolveEnvironment(labels, conf) ==
    IF "environment" \notin DOMAIN labels
    THEN conf.default_environment
    ELSE LET raw == labels["environment"]
             mapped == IF raw \notin conf.valid_environments
                       THEN ScanMapping(conf.environment_mapping, 1, raw)
                       ELSE raw
         IN  IF mapped \notin conf.valid_environments
             THEN conf.default_environment
             ELSE mapped

\* hostname: the first of hostname, nodename, node, instance that is present.
ParseHostname(labels) ==
    IF "hostname" \in DOMAIN labels THEN labels["hostname"]
    ELSE IF "nodename" \in DOMAIN labels THEN labels["nodename"]
    ELSE IF "node" \in DOMAIN labels THEN labels["node"]
    ELSE IF "instance" \in DOMAIN labels THEN labels["instance"]
    ELSE <<>>

\* The severity of the URL, whatever the label says.
ParseSeverity_UrlOnly(labels, url_severity) == url_severity

ParseSeverity(labels, url_severity) ==
    IF "severity" \in DOMAIN labels THEN labels["severity"] ELSE url_severity

ParseTitle(alert) ==
    IF "summary" \in DOMAIN alert.annotations
    THEN ToUpper(alert.status \o <<" ", ":", " ">> \o alert.annotations["summary"])
    ELSE ToUpper(alert.status)

\* description, as the labels of its lines in the order they are appended
\* (the text of a line is not tracked).
ParseDescription(alert) ==
    LET l == DOMAIN alert.labels
        a == DOMAIN alert.annotations
        line(present, name) == IF present THEN <<name>> ELSE <<>>
    IN  line("environment" \in l, "Environment")
        \o line("app" \in l, "App")
        \o (IF "hostname" \in l THEN <<"Hostname">>
            ELSE IF "nodename" \in l THEN <<"Instance">>
            ELSE IF "node" \in l THEN <<"Node">>
            ELSE IF "instance" \in l THEN <<"Instance">>
            ELSE <<>>)
        \o line("info" \in a, "Info")
        \o line("description" \in a, "Description")
        \o line("runbook_url" \in a, "Runbook URL")
        \o line("log" \in l, "Log")
        \o line(alert.status = resolved, "Resolved")
        \o line(alert.status = firing, "Started")

AllNone ==
    [title |-> None, description |-> None, hostname |-> None, status |-> None,
     application |-> None, environment |-> None, severity |-> None]

\* parse_alert without the Watchdog check of lines 247-249.
parse_alert_KeepsWatchdog(alert, url_severity, conf) ==
    [title |-> ParseTitle(alert),
     description |-> ParseDescription(alert),
     hostname |-> ParseHostname(alert.labels),
     status |-> alert.status,
     application |-> IF "app" \in DOMAIN alert.labels
                     THEN alert.labels["app"] ELSE <<>>,
     environment |-> ResolveEnvironment(alert.labels, conf),
     severity |-> ParseSeverity(alert.labels, url_severity)]

parse_alert(alert, url_severity, conf) ==
    IF "alertname" \in DOMAIN alert.labels /\ alert.labels["alertname"] = Watchdog
    THEN AllNone
    ELSE [title |-> ParseTitle(alert),
          description |-> ParseDescription(alert),
          hostname |-> ParseHostname(alert.labels),
          status |-> alert.status,
          application |-> IF "app" \in DOMAIN alert.labels
                          THEN alert.labels["app"] ELSE <<>>,
          environment |-> ResolveEnvironment(alert.labels, conf),
          severity |-> ParseSeverity(alert.labels, url_severity)]

-----------------------------------------------------------------------------
(* The upstream APIs *)

HttpOk == 200
HttpAccepted == 202
HttpTooManyRequests == 429
HttpServerError == 500

Dests == {"discord", "telegram", "pagerduty"}

\* Status codes an upstream answers with; PagerDuty usually returns 202.
Codes(dest) ==
    IF dest = "pagerduty" THEN {HttpAccepted, HttpTooManyRequests, HttpServerError}
    ELSE {HttpOk, HttpTooManyRequests, HttpServerError}

IsSuccess(code) == code \in {HttpOk, HttpAccepted}

\* The retry_after field of the 429 body an upstream answers the post for
\* alert i with: the advertised delay differs from call to call.
RetryAfter(i) == i

\* response.json(): the body of the response to the attempt-th post for
\* alert i; retry_after is 0 where the body has no such field.
Body(i, attempt, code) ==
    [alert |-> i, attempt |-> attempt, code |-> code,
     retry_after |-> IF code = HttpTooManyRequests THEN RetryAfter(i) ELSE 0]

NoResponse == Body(0, 0, 0)

\* One requests.post call; slept is the time.sleep that preceded it.
Post(i, attempt, target, slept) ==
    [alert |-> i, attempt |-> attempt, target |-> target, slept |-> slept]

-----------------------------------------------------------------------------
(* pagerduty_handler: service and routing key *)

\* re.match(r'^[a-zA-Z]+(?=[\.-])', hostname): the lengths k such that the
\* first k characters are letters and the next one is a dot or a hyphen.
MatchLengths(hostname) ==
    { k \in 1..(Len(hostname) - 1) :
        /\ \A j \in 1..k : hostname[j] \in Letters
        /\ hostname[k + 1] \in {".", "-"} }

\* The application tried before the hostname prefix.
DeriveService_ApplicationFirst(hostname, application, services) ==
    IF application \in DOMAIN services THEN application
    ELSE IF MatchLengths(hostname) # {}
    THEN SubSeq(hostname, 1,
                CHOOSE k \in MatchLengths(hostname) :
                    \A m \in MatchLengths(hostname) : m <= k)
    ELSE IF hostname \in DOMAIN services THEN hostname
    ELSE default

\* service, lines 604-611.
DeriveService(hostname, application, services) ==
    IF MatchLengths(hostname) # {}
    THEN SubSeq(hostname, 1,
                CHOOSE k \in MatchLengths(hostname) :
                    \A m \in MatchLengths(hostname) : m <= k)
    ELSE IF application \in DOMAIN services THEN application
    ELSE IF hostname \in DOMAIN services THEN hostname
    ELSE default

\* routing_key, lines 613-616; KeyError when neither key exists.
KeyError == <<"KeyError">>

RoutingKey(svc, services) ==
    IF svc \in DOMAIN services THEN services[svc]
    ELSE IF default \in DOMAIN services THEN services[default]
    ELSE KeyError

-----------------------------------------------------------------------------
(* Steps shared by the three handlers' loops *)

\* continue: on to the next alert, nothing sent.
Continue ==
    /\ idx' = idx + 1
    /\ UNCHANGED <<pc, phase, posts, response, responses, http_status, error>>

\* An uncaught exception: Flask answers 500 and the request is over.
Raise(exception) ==
    /\ phase' = "raised"
    /\ error' = exception
    /\ http_status' = HttpServerError
    /\ UNCHANGED <<pc, idx, posts, response, responses>>

\* The first requests.post for the current alert.
Send(dest, target) ==
    /\ posts' = [posts EXCEPT ![dest] = Append(@, Post(idx, 1, target, 0))]
    /\ phase' = "post"
    /\ UNCHANGED <<pc, idx, response, responses, http_status, error>>

\* return responses from inside the loop.
ReturnEarly ==
    /\ pc' = "respond"
    /\ UNCHANGED <<idx, phase, posts, response, responses, http_status, error>>

-----------------------------------------------------------------------------
(* discord_handler, one iteration of its loop up to the first post *)

DiscordAlert ==
    /\ pc = "discord" /\ phase = "loop" /\ idx <= Len(alerts)
    /\ LET p == parse_alert(alerts[idx], default_severity, config)
           envs == config.discord.environments
       IN  /\ parsed' = p
           /\ IF p.title = None /\ p.description = None
              THEN Continue
              ELSE IF p.environment \notin DOMAIN envs
              THEN Raise("KeyError")
              ELSE IF p.severity \notin DOMAIN envs[p.environment]
              THEN Raise("KeyError")
              ELSE Send("discord", envs[p.environment][p.severity].channel_id)
    /\ UNCHANGED <<text, link_format, returned>>
    /\ UNCHANGED <<config, alerts, default_severity, service, faults>>

(* telegram_handler, one iteration of its loop up to the first post *)

TelegramAlert ==
    /\ pc = "telegram" /\ phase = "loop" /\ idx <= Len(alerts)
    /\ LET p == parse_alert(alerts[idx], default_severity, config)
           envs == config.telegram.environments
       IN  /\ parsed' = p
           /\ IF p.title = None /\ p.description = None
              THEN Continue
              ELSE IF p.environment \notin DOMAIN envs
              THEN Continue
              ELSE IF p.severity \notin DOMAIN envs[p.environment]
              THEN Continue
              ELSE Send("telegram", envs[p.environment][p.severity].chat_id)
    /\ UNCHANGED <<text, link_format, returned>>
    /\ UNCHANGED <<config, alerts, default_severity, service, faults>>

(* pagerduty_handler, one iteration of its loop up to the first post *)

\* pagerduty_handler without the test of lines 598-599.
PagerdutyAlert_NoEnvironmentGate ==
    /\ pc = "pagerduty" /\ phase = "loop" /\ idx <= Len(alerts)
    /\ LET p == parse_alert(alerts[idx], default_severity, config)
           services == config.pagerduty.services
           svc == DeriveService(p.hostname, p.application, services)
           routing_key == RoutingKey(svc, services)
           paged == /\ p.severity = critical
                    /\ ~(p.title = None /\ p.description = None)
                    /\ p.status = firing
       IN  /\ parsed' = p
           /\ service' = IF paged THEN svc ELSE service
           /\ IF p.severity # critical
              THEN ReturnEarly
              ELSE IF p.title = None /\ p.description = None
              THEN Continue
              ELSE IF p.status # firing
              THEN Continue
              ELSE IF routing_key = KeyError
              THEN Raise("KeyError")
              ELSE Send("pagerduty", routing_key)
    /\ UNCHANGED <<text, link_format, returned>>
    /\ UNCHANGED <<config, alerts, default_severity, faults>>

PagerdutyAlert ==
    /\ pc = "pagerduty" /\ phase = "loop" /\ idx <= Len(alerts)
    /\ LET p == parse_alert(alerts[idx], default_severity, config)
           services == config.pagerduty.services
           svc == DeriveService(p.hostname, p.application, services)
           routing_key == RoutingKey(svc, services)
           paged == /\ p.severity = critical
                    /\ ~(p.title = None /\ p.description = None)
                    /\ p.status = firing
                    /\ p.environment \in config.pagerduty.environments
       IN  /\ parsed' = p
           /\ service' = IF paged THEN svc ELSE service
           /\ IF p.severity # critical
              THEN ReturnEarly
              ELSE IF p.title = None /\ p.description = None
              THEN Continue
              ELSE IF p.status # firing
              THEN Continue
              ELSE IF p.environment \notin config.pagerduty.environments
              THEN Continue
              ELSE IF routing_key = KeyError
              THEN Raise("KeyError")
              ELSE Send("pagerduty", routing_key)
    /\ UNCHANGED <<text, link_format, returned>>
    /\ UNCHANGED <<config, alerts, default_severity, faults>>

-----------------------------------------------------------------------------
(* The response to a post, and the single retry after a 429 *)

\* FirstResponse with response.raise_for_status() on a non-2xx, non-429 answer.
FirstResponse_RaisesOnError(dest) ==
    /\ pc = dest /\ phase = "post"
    /\ \E code \in Codes(dest) :
          /\ ~IsSuccess(code) => faults < MaxFaults
          /\ faults' = IF IsSuccess(code) THEN faults ELSE faults + 1
          /\ response' = Body(idx, 1, code)
          /\ IF code = HttpTooManyRequests
             THEN /\ posts' = [posts EXCEPT ![dest] =
                        Append(@, Post(idx, 2, @[Len(@)].target,
                                       response'.retry_after))]
                  /\ phase' = "retry"
                  /\ UNCHANGED <<idx, responses, http_status, error>>
             ELSE IF ~IsSuccess(code)
             THEN /\ phase' = "raised"
                  /\ error' = "HTTPError"
                  /\ http_status' = HttpServerError
                  /\ UNCHANGED <<idx, posts, responses>>
             ELSE /\ responses' = [responses EXCEPT ![dest] = Append(@, response')]
                  /\ phase' = "loop"
                  /\ idx' = idx + 1
                  /\ UNCHANGED <<posts, http_status, error>>
    /\ UNCHANGED <<text, link_format, returned>>
    /\ UNCHANGED <<config, alerts, default_severity, pc, parsed, service>>

\* FirstResponse that appends the 429 body to responses before it retries.
FirstResponse_RecordsRateLimit(dest) ==
    /\ pc = dest /\ phase = "post"
    /\ \E code \in Codes(dest) :
          /\ ~IsSuccess(code) => faults < MaxFaults
          /\ faults' = IF IsSuccess(code) THEN faults ELSE faults + 1
          /\ response' = Body(idx, 1, code)
          /\ responses' = [responses EXCEPT ![dest] = Append(@, response')]
          /\ IF code = HttpTooManyRequests
             THEN /\ posts' = [posts EXCEPT ![dest] =
                        Append(@, Post(idx, 2, @[Len(@)].target,
                                       response'.retry_after))]
                  /\ phase' = "retry"
                  /\ UNCHANGED idx
             ELSE /\ phase' = "loop"
                  /\ idx' = idx + 1
                  /\ UNCHANGED posts
    /\ UNCHANGED <<text, link_format, returned>>
    /\ UNCHANGED <<config, alerts, default_severity, pc, parsed, http_status,
                   error, service>>

\* Lines 447-469, 526-546, 643-660: the first response arrives.  On 429 the
\* handler sleeps retry_after and posts again; otherwise the body is appended.
FirstResponse(dest) ==
    /\ pc = dest /\ phase = "post"
    /\ \E code \in Codes(dest) :
          /\ ~IsSuccess(code) => faults < MaxFaults
          /\ faults' = IF IsSuccess(code) THEN faults ELSE faults + 1
          /\ response' = Body(idx, 1, code)
          /\ IF code = HttpTooManyRequests
             THEN /\ posts' = [posts EXCEPT ![dest] =
                        Append(@, Post(idx, 2, @[Len(@)].target,
                                       response'.retry_after))]
                  /\ phase' = "retry"
                  /\ UNCHANGED <<idx, responses>>
             ELSE /\ responses' = [responses EXCEPT ![dest] = Append(@, response')]
                  /\ phase' = "loop"
                  /\ idx' = idx + 1
                  /\ UNCHANGED posts
    /\ UNCHANGED <<text, link_format, returned>>
    /\ UNCHANGED <<config, alerts, default_severity, pc, parsed, http_status,
                   error, service>>

\* RetryResponse that posts again for as long as the answer is 429.
RetryResponse_RetriesAgain(dest) ==
    /\ pc = dest /\ phase = "retry"
    /\ \E code \in Codes(dest) :
          /\ ~IsSuccess(code) => faults < MaxFaults
          /\ faults' = IF IsSuccess(code) THEN faults ELSE faults + 1
          /\ response' = Body(idx, 2, code)
          /\ IF code = HttpTooManyRequests
             THEN /\ posts' = [posts EXCEPT ![dest] =
                        Append(@, Post(idx, 3, @[Len(@)].target,
                                       response'.retry_after))]
                  /\ UNCHANGED <<idx, phase, responses>>
             ELSE /\ responses' = [responses EXCEPT ![dest] = Append(@, response')]
                  /\ phase' = "loop"
                  /\ idx' = idx + 1
                  /\ UNCHANGED posts
    /\ UNCHANGED <<text, link_format, returned>>
    /\ UNCHANGED <<config, alerts, default_severity, pc, parsed, http_status,
                   error, service>>

\* The response to the retry is appended whatever its status.
RetryResponse(dest) ==
    /\ pc = dest /\ phase = "retry"
    /\ \E code \in Codes(dest) :
          /\ ~IsSuccess(code) => faults < MaxFaults
          /\ faults' = IF IsSuccess(code) THEN faults ELSE faults + 1
          /\ response' = Body(idx, 2, code)
          /\ responses' = [responses EXCEPT ![dest] = Append(@, response')]
    /\ phase' = "loop"
    /\ idx' = idx + 1
    /\ UNCHANGED <<text, link_format, returned>>
    /\ UNCHANGED <<config, alerts, default_severity, pc, parsed, posts,
                   http_status, error, service>>

-----------------------------------------------------------------------------
(* webhook_handler *)

\* The handlers run in the order of the dict literal of lines 704-708.
NextHandler(dest) ==
    IF dest = "discord" THEN "telegram"
    ELSE IF dest = "telegram" THEN "pagerduty"
    ELSE "respond"

\* A handler's loop is over: return responses.
HandlerReturn(dest) ==
    /\ pc = dest /\ phase = "loop" /\ idx > Len(alerts)
    /\ pc' = NextHandler(dest)
    /\ idx' = IF dest = "pagerduty" THEN idx ELSE 1
    /\ UNCHANGED <<text, link_format, returned>>
    /\ UNCHANGED <<config, alerts, default_severity, phase, parsed, posts,
                   response, responses, http_status, error, service, faults>>

\* make_response(jsonify({...}), 200)
WebhookReturn ==
    /\ pc = "respond"
    /\ pc' = "done"
    /\ http_status' = HttpOk
    /\ UNCHANGED <<text, link_format, returned>>
    /\ UNCHANGED <<config, alerts, default_severity, idx, phase, parsed, posts,
                   response, responses, error, service, faults>>

Next ==
    \/ DiscordAlert
    \/ TelegramAlert
    \/ PagerdutyAlert
    \/ \E dest \in Dests : FirstResponse(dest)
    \/ \E dest \in Dests : RetryResponse(dest)
    \/ \E dest \in Dests : HandlerReturn(dest)
    \/ WebhookReturn

-----------------------------------------------------------------------------
(* Inputs of the dispatcher specification *)

prod == <<"p","r","o","d">>
dev == <<"d","e","v">>
prd == <<"p","r","d">>

Severities == {critical, warning}

DiscordParams(env, severity) ==
    [channel_id |-> <<"c","h","-">> \o env \o <<"-">> \o severity,
     author |-> [name |-> env, icon_url |-> <<"u","r","l">>]]

TelegramParams(env, severity) ==
    [chat_id |-> <<"c","h","a","t","-">> \o env \o <<"-">> \o severity]

\* The parameters a destination's configuration holds for one route.
Params(dest, env, severity) ==
    IF dest = "discord" THEN DiscordParams(env, severity)
    ELSE TelegramParams(env, severity)

\* environments -> severities -> parameters, for the given environments.
Routes(dest, envs, severities) ==
    [env \in envs |-> [severity \in severities |-> Params(dest, env, severity)]]

\* Every environment and severity routed, or only prod/critical.
FullRoutes(dest) == Routes(dest, {prod, dev}, Severities)
PartialRoutes(dest) == Routes(dest, {prod}, {critical})

DefaultServices == [s \in {default} |-> <<"k","e","y","-">> \o s]

Configs ==
    { [discord |-> [bot_token |-> <<"t","1">>, environments |-> de],
       telegram |-> [bot_token |-> <<"t","2">>, environments |-> te],
       pagerduty |-> [environments |-> pe, services |-> DefaultServices],
       valid_environments |-> {prod, dev},
       default_environment |-> dev,
       environment_mapping |-> << [key |-> prd, value |-> prod] >>] :
         de \in {FullRoutes("discord"), PartialRoutes("discord")},
         te \in {PartialRoutes("telegram")},
         pe \in {{prod}} }

\* A dict from its items, a set of <<key, value>> pairs with distinct keys.
Dict(items) ==
    [k \in {it[1] : it \in items} |-> (CHOOSE it \in items : it[1] = k)[2]]

\* One optional item: absent, or key with one of the values.
Optional(key, values) == {{}} \cup {{<<key, v>>} : v \in values}

\* Labels of the alerts of a batch.  A Watchdog alert carries no severity
\* label (its severity is then the URL's).
LabelSets ==
    { Dict({<<"alertname", instance_down>>} \cup sev \cup env) :
        sev \in Optional("severity", {warning}),
        env \in Optional("environment", {prod}) }
    \cup
    { Dict({<<"alertname", Watchdog>>} \cup env) :
        env \in Optional("environment", {prod}) }

NoAnnotations == [k \in {} |-> <<>>]

Alerts ==
    { [status |-> st, labels |-> l, annotations |-> NoAnnotations] :
        st \in {firing, resolved}, l \in LabelSets }

Batches == UNION { [1..n -> Alerts] : n \in 1..MaxAlerts }

\* No alert handled yet.
Idle ==
    /\ idx = 1
    /\ phase = "loop"
    /\ parsed = AllNone
    /\ posts = [d \in Dests |-> <<>>]
    /\ response = NoResponse
    /\ responses = [d \in Dests |-> <<>>]
    /\ http_status = 0
    /\ error = "none"
    /\ service = <<>>
    /\ faults = 0
    /\ text = <<>>
    /\ link_format = "html"
    /\ returned = None

Init ==
    /\ config \in Configs
    /\ validate_config(config)
    /\ alerts \in Batches
    /\ default_severity \in Severities
    /\ pc = "discord"
    /\ Idle

-----------------------------------------------------------------------------
(* Vocabulary of the properties *)

IsWatchdog(alert) ==
    "alertname" \in DOMAIN alert.labels /\ alert.labels["alertname"] = Watchdog

\* labels.severity, else the severity of the URL.
ResolvedSeverity(alert) ==
    IF "severity" \in DOMAIN alert.labels
    THEN alert.labels["severity"]
    ELSE default_severity

\* The alerts (by position in the batch) posted to, and recorded for, dest.
PostedAlerts(dest) == {posts[dest][k].alert : k \in 1..Len(posts[dest])}
RecordedAlerts(dest) == {responses[dest][k].alert : k \in 1..Len(responses[dest])}

\* webhook_handler has answered 200.
Answered == pc = "done" /\ http_status = HttpOk

\* config[dest].environments has an entry for the alert's environment and,
\* under it, for its severity.
ChatRouted(dest, alert) ==
    LET env == ResolveEnvironment(alert.labels, config)
        envs == config[dest].environments
    IN  /\ env \in DOMAIN envs
        /\ ResolvedSeverity(alert) \in DOMAIN envs[env]

\* Critical, firing, not suppressed, environment configured for paging.
Pageable(alert) ==
    /\ ~IsWatchdog(alert)
    /\ ResolvedSeverity(alert) = critical
    /\ alert.status = firing
    /\ ResolveEnvironment(alert.labels, config) \in config.pagerduty.environments

IsFailure(body) == body.code \notin {HttpOk, HttpAccepted}

-----------------------------------------------------------------------------
(* Properties of the dispatcher, checked under Spec *)

\* C1: an alert whose alertname is Watchdog causes no outbound call to any
\* of the three destinations, whatever its status, severity or environment.
C1_WatchdogNeverDelivered ==
    \A dest \in Dests : \A i \in PostedAlerts(dest) : ~IsWatchdog(alerts[i])

\* A firing Watchdog alert of environment prod, critical by the URL, was
\* passed over by every handler while the alert after it was delivered.
C1_Witness ==
    /\ Answered
    /\ Len(alerts) = 2
    /\ IsWatchdog(alerts[1])
    /\ alerts[1].status = firing
    /\ "environment" \in DOMAIN alerts[1].labels
    /\ default_severity = critical
    /\ PostedAlerts("discord") = {2}
    /\ PostedAlerts("telegram") = {2}

\* What a step that ends a delivery (the response to a post, or to the retry,
\* that is not retried) must do: record the body as the pair's result and go
\* on with the next alert of the same handler, without raising.
DeliveryEnds == phase \in {"post", "retry"} /\ phase' \in {"loop", "raised"}

DeliveryContinues ==
    /\ phase' = "loop"
    /\ pc' = pc
    /\ idx' = idx + 1
    /\ responses' = [responses EXCEPT ![pc] = Append(@, response')]
    /\ response'.alert = idx
    /\ http_status' = 0
    /\ error' = "none"

\* Whatever was served: no exception comes from a pair that reached Send, a
\* request that raised nothing is answered 200, and then Discord holds a
\* result for every alert that is not suppressed, Telegram for every routed
\* one and PagerDuty for every pageable one its loop came to.
FailuresIsolated ==
    /\ phase = "raised" => (error = "KeyError" /\ idx \notin PostedAlerts(pc))
    /\ pc = "done" => http_status = HttpOk
    /\ Answered =>
          \A i \in 1..Len(alerts) :
              /\ ~IsWatchdog(alerts[i]) => i \in RecordedAlerts("discord")
              /\ (~IsWatchdog(alerts[i]) /\ ChatRouted("telegram", alerts[i]))
                    => i \in RecordedAlerts("telegram")
              /\ (i < idx /\ Pageable(alerts[i]))
                    => i \in RecordedAlerts("pagerduty")

C3_PagingOnlyCriticalFiring ==
    /\ \A i \in PostedAlerts("pagerduty") :
          /\ ResolvedSeverity(alerts[i]) = critical
          /\ alerts[i].status = firing
    /\ (\A i \in 1..Len(alerts) :
            ~(ResolvedSeverity(alerts[i]) = critical /\ alerts[i].status = firing))
          => (posts["pagerduty"] = <<>> /\ responses["pagerduty"] = <<>>)

\* A firing alert labelled warning, posted to /critical, went through all
\* three handlers: Discord got it, the paging list is empty.
C3_Witness ==
    /\ Answered
    /\ Len(alerts) = 1
    /\ alerts[1].status = firing
    /\ ~IsWatchdog(alerts[1])
    /\ "severity" \in DOMAIN alerts[1].labels
    /\ alerts[1].labels["severity"] = warning
    /\ default_severity = critical
    /\ PostedAlerts("discord") = {1}
    /\ posts["pagerduty"] = <<>>
    /\ responses["pagerduty"] = <<>>

\* C4 as claimed: every alert that is critical, firing, not suppressed and of
\* an environment configured for paging gets its own paging attempt, whatever
\* alerts precede it in the batch.
C4_EveryPageableAlertPaged ==
    Answered =>
        \A i \in 1..Len(alerts) :
            Pageable(alerts[i]) => i \in PostedAlerts("pagerduty")

\* C5 as claimed: for discord and telegram alike, an alert whose environment,
\* or whose severity under that environment, has no entry in the destination's
\* environments is skipped silently: no outbound call and no error.
C5_UnroutedAlertSkippedSilently ==
    \A dest \in {"discord", "telegram"} :
        /\ \A i \in PostedAlerts(dest) : ChatRouted(dest, alerts[i])
        /\ (/\ pc = dest
            /\ idx <= Len(alerts)
            /\ ~IsWatchdog(alerts[idx])
            /\ ~ChatRouted(dest, alerts[idx]))
              => (phase # "raised" /\ error = "none" /\ http_status # HttpServerError)

\* Number of posts made to dest for alert i, and the results recorded for it.
Calls(dest, i) ==
    Cardinality({k \in 1..Len(posts[dest]) : posts[dest][k].alert = i})
Results(dest, i) ==
    {k \in 1..Len(responses[dest]) : responses[dest][k].alert = i}

\* The pair (dest, alert i) is between its first post and its result.
InFlight(dest, i) == pc = dest /\ idx = i /\ phase \in {"post", "retry"}

IsFirstAttempt(post) == post.attempt = 1

\* C8: for each destination the result list holds exactly one entry per alert
\* that reached Send, in the order of the alerts in the batch, and none for a
\* suppressed or skipped alert.
C8_OneResultPerSentAlertInOrder ==
    phase = "loop" =>
        \A dest \in Dests :
            LET sent == SelectSeq(posts[dest], IsFirstAttempt)
                results == responses[dest]
            IN  /\ Len(results) = Len(sent)
                /\ \A k \in 1..Len(results) : results[k].alert = sent[k].alert
                /\ \A k, m \in 1..Len(results) :
                      k < m => results[k].alert < results[m].alert
                /\ \A k \in 1..Len(results) :
                      /\ ~IsWatchdog(alerts[results[k].alert])
                      /\ dest = "telegram" =>
                            ChatRouted("telegram", alerts[results[k].alert])
                      /\ dest = "pagerduty" => Pageable(alerts[results[k].alert])

\* Discord holds the results of both alerts in batch order, the first one
\* after a retry; Telegram skipped the first alert and holds the second only.
C8_Witness ==
    /\ Answered
    /\ Len(alerts) = 2
    /\ ~ChatRouted("telegram", alerts[1])
    /\ Len(responses["discord"]) = 2
    /\ responses["discord"][1].alert = 1
    /\ responses["discord"][1].attempt = 2
    /\ responses["discord"][2].alert = 2
    /\ Len(responses["telegram"]) = 1
    /\ responses["telegram"][1].alert = 2

\* Critical, firing, not suppressed, of an environment that is not a key of
\* config.pagerduty.environments.
EnvironmentGated(alert) ==
    /\ ~IsWatchdog(alert)
    /\ ResolvedSeverity(alert) = critical
    /\ alert.status = firing
    /\ ResolveEnvironment(alert.labels, config) \notin config.pagerduty.environments

\* pagerduty_handler is about to handle an alert the environment gate stops.
AtGatedAlert ==
    /\ pc = "pagerduty" /\ phase = "loop" /\ idx <= Len(alerts)
    /\ EnvironmentGated(alerts[idx])

\* continue: the next alert of the same handler, nothing sent or recorded.
GatedAlertSkipped ==
    /\ pc' = pc
    /\ phase' = "loop"
    /\ idx' = idx + 1
    /\ posts' = posts
    /\ responses' = responses
    /\ error' = "none"
    /\ http_status' = 0

NoGatedAlertPaged ==
    \A i \in PostedAlerts("pagerduty") \cup RecordedAlerts("pagerduty") :
        ~EnvironmentGated(alerts[i])

\* C13: for an alert that is critical, firing and not suppressed and whose
\* resolved environment is not a key of config.pagerduty.environments,
\* pagerduty_handler makes no outbound call, records no result and continues
\* with the next alert.
C13_PagingEnvironmentGate ==
    [][(AtGatedAlert => GatedAlertSkipped) /\ NoGatedAlertPaged']_vars

\* The first alert is critical and firing with the default environment dev,
\* which is not configured for paging; it was passed over and the pageable
\* alert after it was paged.
C13_Witness ==
    /\ Answered
    /\ Len(alerts) = 2
    /\ EnvironmentGated(alerts[1])
    /\ Pageable(alerts[2])
    /\ PostedAlerts("pagerduty") = {2}
    /\ RecordedAlerts("pagerduty") = {2}

Spec == Init /\ [][Next]_vars

-----------------------------------------------------------------------------
(* parse_alert on its own: the inputs of the environment resolver *)

\* One call of parse_alert on the alert at idx.
ParseAlertCall ==
    /\ pc = "parse_alert"
    /\ parsed' = parse_alert(alerts[idx], default_severity, config)
    /\ pc' = "done"
    /\ UNCHANGED <<text, link_format, returned>>
    /\ UNCHANGED <<config, alerts, default_severity, idx, phase, posts,
                   response, responses, http_status, error, service, faults>>

EnvStrings == Strings({"a", "b"}, 1, MaxEnvLen)
EnvKeys == Strings({"a", "b"}, 1, 1)

\* environment_mapping: up to MaxMapping entries with distinct keys, in the
\* order the dict holds them.
Mappings ==
    { m \in UNION { [1..n -> [key : EnvKeys, value : EnvStrings]] :
                      n \in 0..MaxMapping } :
        \A i, j \in 1..Len(m) : i # j => m[i].key # m[j].key }

\* One to two valid environments.
ValidEnvironmentSets == {v \in SUBSET EnvStrings : Cardinality(v) \in 1..2}

\* The configuration with the given environment keys; every mandatory key
\* of validate_config is present.
EnvConfig(valid_environments, default_environment, environment_mapping) ==
    [discord |-> [bot_token |-> <<"t","1">>,
                  environments |-> FullRoutes("discord")],
     telegram |-> [bot_token |-> <<"t","2">>,
                   environments |-> FullRoutes("telegram")],
     pagerduty |-> [environments |-> {prod}, services |-> DefaultServices],
     valid_environments |-> valid_environments,
     default_environment |-> default_environment,
     environment_mapping |-> environment_mapping]

EnvAlerts ==
    { [status |-> firing,
       labels |-> Dict({<<"alertname", instance_down>>} \cup env),
       annotations |-> NoAnnotations] :
        env \in Optional("environment", EnvStrings) }

InitEnv ==
    /\ \E ve \in ValidEnvironmentSets, de \in EnvStrings, m \in Mappings :
          config = EnvConfig(ve, de, m)
    /\ validate_config(config)
    /\ alerts \in [1..1 -> EnvAlerts]
    /\ default_severity = warning
    /\ pc = "parse_alert"
    /\ Idle

NextEnv == ParseAlertCall

SpecEnv == InitEnv /\ [][NextEnv]_vars

\* C7 as claimed: the environment parse_alert returns is a member of
\* valid_environments, for every configuration validate_config accepts.
C7_EnvironmentAlwaysValid ==
    (pc = "done" /\ parsed # AllNone /\ validate_config(config))
        => parsed.environment \in config.valid_environments

\* The key of the first mapping entry that is a substring of raw, if any.
FirstMatches(mapping, raw) ==
    { i \in 1..Len(mapping) :
        /\ IsSubstring(mapping[i].key, raw)
        /\ \A j \in 1..(i - 1) : ~IsSubstring(mapping[j].key, raw) }

\* C10 as claimed: when the raw environment is not valid, the first mapping
\* entry whose key is a substring of the raw value supplies the environment
\* (the default standing in when that value is not valid); later entries do
\* not change the result.
C10_FirstMappingMatchWins ==
    (/\ pc = "done"
     /\ "environment" \in DOMAIN alerts[1].labels
     /\ alerts[1].labels["environment"] \notin config.valid_environments)
        => \A i \in FirstMatches(config.environment_mapping,
                                 alerts[1].labels["environment"]) :
              LET value == config.environment_mapping[i].value
              IN  parsed.environment =
                      IF value \in config.valid_environments
                      THEN value
                      ELSE config.default_environment

-----------------------------------------------------------------------------
(* Inputs of the service derivation: one critical, firing alert whose        *)
(* hostname and app vary, against several services maps                      *)

HostStrings == Strings({"w", "1", "-", "."}, 1, MaxHostLen)
api == <<"a","p","i">>

ServiceMaps ==
    { [s \in d \cup c |-> <<"k","e","y","-">> \o s] :
        d \in {{default}, {}}, c \in SUBSET {<<"w">>, <<"w","1">>, api} }

SvcConfigs ==
    { [discord |-> [bot_token |-> <<"t","1">>,
                    environments |-> FullRoutes("discord")],
       telegram |-> [bot_token |-> <<"t","2">>,
                     environments |-> PartialRoutes("telegram")],
       pagerduty |-> [environments |-> {dev}, services |-> sm],
       valid_environments |-> {prod, dev},
       default_environment |-> dev,
       environment_mapping |-> << [key |-> prd, value |-> prod] >>] :
         sm \in ServiceMaps }

SvcLabels ==
    { Dict({<<"alertname", instance_down>>, <<"severity", critical>>}
           \cup host \cup app) :
        host \in Optional("hostname", HostStrings),
        app \in Optional("app", {api}) }

SvcAlerts ==
    { [status |-> firing, labels |-> l, annotations |-> NoAnnotations] :
        l \in SvcLabels }

InitSvc ==
    /\ config \in SvcConfigs
    /\ validate_config(config)
    /\ alerts \in [1..1 -> SvcAlerts]
    /\ default_severity = warning
    /\ pc = "discord"
    /\ Idle

\* The service the precedence rule names: the letters before the first dot
\* or hyphen of the hostname when there are some and nothing else precedes
\* it; else the application if configured; else the hostname if configured;
\* else "default".
ExpectedService(hostname, application, services) ==
    LET separators == {k \in 1..Len(hostname) : hostname[k] \in {".", "-"}}
        first == CHOOSE k \in separators : \A m \in separators : k <= m
    IN  IF /\ separators # {}
           /\ first > 1
           /\ \A j \in 1..(first - 1) : hostname[j] \in Letters
        THEN SubSeq(hostname, 1, first - 1)
        ELSE IF application \in DOMAIN services THEN application
        ELSE IF hostname \in DOMAIN services THEN hostname
        ELSE default

ExpectedServiceOf(alert) ==
    ExpectedService(ParseHostname(alert.labels),
                    IF "app" \in DOMAIN alert.labels THEN alert.labels["app"] ELSE <<>>,
                    config.pagerduty.services)

\* C9: for a paged alert the service is the hostname's leading alphabetic
\* prefix before the first dot or hyphen, else the application if it is a
\* configured service, else the hostname if it is one, else "default" (the
\* prefix wins over a configured application); the routing key sent is
\* services[service] when that key exists and services["default"] otherwise.
C9_ServicePrecedence ==
    LET services == config.pagerduty.services
    IN  /\ (pc = "pagerduty" /\ phase \in {"post", "retry"})
              => service = ExpectedServiceOf(alerts[idx])
        /\ \A k \in 1..Len(posts["pagerduty"]) :
              LET expected == ExpectedServiceOf(alerts[posts["pagerduty"][k].alert])
                  target == posts["pagerduty"][k].target
              IN  \/ expected \in DOMAIN services /\ target = services[expected]
                  \/ /\ expected \notin DOMAIN services
                     /\ default \in DOMAIN services
                     /\ target = services[default]

\* Hostname "w-1" with app "api", where api is a configured service and w is
\* not: the service is w, and the page went out with the default routing key.
C9_Witness ==
    /\ Answered
    /\ alerts[1].labels = Dict({<<"alertname", instance_down>>,
                                <<"severity", critical>>,
                                <<"hostname", <<"w", "-", "1">> >>,
                                <<"app", api>>})
    /\ api \in DOMAIN config.pagerduty.services
    /\ <<"w">> \notin DOMAIN config.pagerduty.services
    /\ service = <<"w">>
    /\ Len(posts["pagerduty"]) = 1
    /\ posts["pagerduty"][1].target = config.pagerduty.services[default]

\* C11 as claimed: a configuration that validate_config accepts and that has
\* a pagerduty section has a "default" key in its services map, and the
\* routing-key lookup of pagerduty_handler never raises KeyError.
C11_ServicesHaveDefaultKey ==
    (validate_config(config) /\ "pagerduty" \in DOMAIN config) =>
        /\ default \in DOMAIN config.pagerduty.services
        /\ ~(pc = "pagerduty" /\ phase = "raised" /\ error = "KeyError")

SpecSvc == InitSvc /\ [][Next]_vars

-----------------------------------------------------------------------------
(* substitute_hyperlinks on its own *)

MaxTokens == 5        \* pieces a text argument is made of

http == <<"h","t","t","p",":","/","/">>
https == <<"h","t","t","p","s",":","/","/">>

\* s has prefix at position i.
StartsWith(s, i, prefix) ==
    /\ i + Len(prefix) - 1 <= Len(s)
    /\ SubSeq(s, i, i + Len(prefix) - 1) = prefix

\* https?:\/\/ matched at i: the position after it, 0 without a match.
SchemeEnd(s, i) ==
    IF StartsWith(s, i, https) THEN i + Len(https)
    ELSE IF StartsWith(s, i, http) THEN i + Len(http)
    ELSE 0

Min(S) == CHOOSE m \in S : \A n \in S : m <= n

\* The pattern (<(https?:\/\/.*?)\|(.*?)>) matched at i, as the tuple of its
\* three groups; both .*? are lazy, so the URL ends at the first "|" and the
\* label at the first ">" after it.  <<>> without a match.
HyperlinkAt(s, i) ==
    LET after == IF i <= Len(s) /\ s[i] = "<" THEN SchemeEnd(s, i + 1) ELSE 0
        bars == IF after = 0 THEN {} ELSE {j \in after..Len(s) : s[j] = "|"}
        bar == Min(bars)
        closes == IF bars = {} THEN {}
                  ELSE {m \in (bar + 1)..Len(s) : s[m] = ">"}
        close == Min(closes)
    IN  IF closes = {} THEN <<>>
        ELSE << [link_original |-> SubSeq(s, i, close),
                 link_actual |-> SubSeq(s, i + 1, bar - 1),
                 link_text |-> SubSeq(s, bar + 1, close - 1)] >>

\* re.findall: the non-overlapping matches from position i on, left to right.
RECURSIVE findall(_, _)
findall(s, i) ==
    IF i > Len(s) THEN <<>>
    ELSE LET match == HyperlinkAt(s, i)
         IN  IF match = <<>> THEN findall(s, i + 1)
             ELSE match \o findall(s, i + Len(match[1].link_original))

\* str.replace from position i on: every occurrence of old, left to right.
RECURSIVE replace(_, _, _, _)
replace(s, i, old, new) ==
    IF i > Len(s) THEN <<>>
    ELSE IF StartsWith(s, i, old) THEN new \o replace(s, i + Len(old), old, new)
    ELSE <<s[i]>> \o replace(s, i + 1, old, new)

LinkFormats == {"html", "markdown", "slack"}

\* link_new of the two supported formats.
LinkNew(format, match) ==
    IF format = "html"
    THEN <<"<","a"," ","h","r","e","f","=","\"">> \o match.link_actual
            \o <<"\"",">">> \o match.link_text \o <<"<","/","a",">">>
    ELSE <<"[">> \o match.link_text \o <<"]","(">> \o match.link_actual \o <<")">>

Exception == <<"Exception">>

\* The loop over matches from the k-th on; the format is looked at inside it.
RECURSIVE SubstituteMatches(_, _, _, _)
SubstituteMatches(s, matches, k, format) ==
    IF k > Len(matches) THEN s
    ELSE IF format \notin {"html", "markdown"} THEN Exception
    ELSE SubstituteMatches(
             replace(s, 1, matches[k].link_original, LinkNew(format, matches[k])),
             matches, k + 1, format)

\* The text returned, or Exception.
substitute_hyperlinks(s, format) ==
    SubstituteMatches(s, findall(s, 1), 1, format)

\* One call of substitute_hyperlinks(text, link_format).
SubstituteHyperlinksCall ==
    /\ pc = "substitute_hyperlinks" /\ phase = "loop"
    /\ LET value == substitute_hyperlinks(text, link_format)
       IN  IF value = Exception
           THEN /\ phase' = "raised"
                /\ error' = "Exception"
                /\ UNCHANGED <<pc, returned>>
           ELSE /\ returned' = value
                /\ pc' = "done"
                /\ UNCHANGED <<phase, error>>
    /\ UNCHANGED <<text, link_format, config, alerts, default_severity, idx,
                   parsed, posts, response, responses, http_status, service,
                   faults>>

Tokens == {<<"<">>, <<">">>, <<"|">>, <<"x">>, http, https}

RECURSIVE Flatten(_)
Flatten(pieces) ==
    IF pieces = <<>> THEN <<>> ELSE Head(pieces) \o Flatten(Tail(pieces))

InitLinks ==
    /\ \E n \in 0..MaxTokens : \E pieces \in [1..n -> Tokens] :
          text = Flatten(pieces)
    /\ link_format \in LinkFormats
    /\ returned = None
    /\ config = EnvConfig({dev}, dev, <<>>)
    /\ alerts = <<>>
    /\ default_severity = warning
    /\ pc = "substitute_hyperlinks"
    /\ idx = 1
    /\ phase = "loop"
    /\ parsed = AllNone
    /\ posts = [d \in Dests |-> <<>>]
    /\ response = NoResponse
    /\ responses = [d \in Dests |-> <<>>]
    /\ http_status = 0
    /\ error = "none"
    /\ service = <<>>
    /\ faults = 0

NextLinks == SubstituteHyperlinksCall

SpecLinks == InitLinks /\ [][NextLinks]_vars

\* The text holds a <URL|LABEL> with an http or https URL.
HasHyperlink(s) ==
    \E i, j, m \in 1..Len(s) :
        /\ s[i] = "<"
        /\ \/ StartsWith(s, i + 1, http) /\ j > i + Len(http)
           \/ StartsWith(s, i + 1, https) /\ j > i + Len(https)
        /\ s[j] = "|"
        /\ m > j
        /\ s[m] = ">"

\* C12 as claimed: with a link_format other than "html" and "markdown" the
\* call fails with an error for every text, with or without a <URL|LABEL>
\* match; with a supported link_format a text without a match is returned
\* unchanged.
C12_UnsupportedFormatAlwaysFails ==
    (pc = "done" \/ phase = "raised") =>
        /\ link_format \notin {"html", "markdown"}
              => (phase = "raised" /\ error = "Exception")
        /\ (link_format \in {"html", "markdown"} /\ ~HasHyperlink(text))
              => (pc = "done" /\ returned = text /\ error = "none")

====
